---- MODULE Spec2Model ----
(***************************************************************************)
(* Model of utils_topn.py: get_top_n_by_history and get_top_n_by_news.     *)
(* Both are pure functions of a pandas DataFrame.  A behaviour of the      *)
(* model is one call: Init draws the arguments from bounded sets, and one  *)
(* action per function runs the whole body and leaves the result (or the   *)
(* raised KeyError) in the state.                                          *)
(***************************************************************************)
EXTENDS Integers, Sequences, FiniteSets

\* ------------------------------------------------------------------ bounds
\* Most rows of a DataFrame; largest n; largest k of a negative n = -k.
MaxRows == 3
MaxN == 3
MaxDrop == 2

\* ------------------------------------------------------------ value domains
\* NaN/None in a cell of the DataFrame.
NULL == 0
\* None as the value of the argument news_count_col (no column has this name).
None == "<None>"

Keys == {1, 2, 3}
Dates == {1, 2}
\* (news_count, other count column) of one row of a news DataFrame
CountPairs == {<<1, 2>>, <<2, 1>>}
NValues == (0 - MaxDrop)..MaxN

\* Defaults of the signatures.
ticker_col == "ticker"
date_col == "date"

\* Name of the second count column a news DataFrame may carry.
OtherCountNames == {"cnt", ""}
CountColArgs == {None, "", "cnt"}

\* fn              which function is called: "history" or "news"
\* df              the DataFrame argument (df / news_df)
\* news_count_col  the argument news_count_col of get_top_n_by_news
\* n               the argument n
\* pc              "call" before the body runs, then "returned" or "raised"
\* counts          the aggregated Series (local counts / totals before .loc)
\* top_tickers     the returned key list
\* subset          the rows of the returned DataFrame
\* totals          the returned Series of get_top_n_by_news
VARIABLES fn, df, news_count_col, n, pc, counts, top_tickers, subset, totals

vars == <<fn, df, news_count_col, n, pc, counts, top_tickers, subset, totals>>

\* ----------------------------------------------------------------- helpers
Range(s) == {s[i] : i \in 1..Len(s)}

SeqsUpTo(S, m) == UNION {[1..k -> S] : k \in 0..m}

Min(a, b) == IF a <= b THEN a ELSE b

Max(a, b) == IF a >= b THEN a ELSE b

RECURSIVE SumOver(_, _)
SumOver(S, f) ==
  IF S = {} THEN 0
  ELSE LET x == CHOOSE y \in S : TRUE IN f[x] + SumOver(S \ {x}, f)

\* The sequence of the elements of the integer set S in ascending order.
RECURSIVE SortedSeq(_)
SortedSeq(S) ==
  IF S = {} THEN <<>>
  ELSE LET m == CHOOSE x \in S : \A y \in S : x <= y
       IN <<m>> \o SortedSeq(S \ {m})

\* A pandas Series: an ordered index and a value per index label.
EmptySeries == [index |-> <<>>, values |-> <<>>]

\* -------------------------------------------------------------- DataFrames
\* A DataFrame: the set of its column names and its rows in order; a row maps
\* each column name to the cell's value.
HistoryFrames ==
  UNION {
    { [columns |-> cols, rows |-> rs] :
        rs \in SeqsUpTo({ [c \in cols |-> IF c = ticker_col THEN k ELSE d] :
                            k \in Keys \cup {NULL}, d \in Dates \cup {NULL} },
                        MaxRows) } :
    cols \in SUBSET {ticker_col, date_col} }

NewsFramesWith(other) ==
  UNION {
    { [columns |-> cols, rows |-> rs] :
        rs \in SeqsUpTo({ [c \in cols |-> IF c = ticker_col THEN k
                                          ELSE IF c = "news_count" THEN p[1] ELSE p[2]] :
                            k \in Keys \cup {NULL}, p \in CountPairs },
                        MaxRows) } :
    cols \in SUBSET {ticker_col, "news_count", other} }

NewsFrames == UNION { NewsFramesWith(other) : other \in OtherCountNames }

\* -------------------------------------------------------- pandas operations
\* df.groupby(col): sort=True, dropna=True, so the group labels are the
\* distinct non-null values of the column in ascending order.
GroupLabels(d, col) ==
  SortedSeq({d.rows[i][col] : i \in 1..Len(d.rows)} \ {NULL})

GroupRows(d, col, k) == {i \in 1..Len(d.rows) : d.rows[i][col] = k}

\* Mutant of GroupByNUnique: counts the non-null cells, duplicates included.
GroupByCountCells(d, col, c) ==
  LET idx == GroupLabels(d, col)
  IN [index |-> idx,
      values |-> [k \in Range(idx) |->
                    Cardinality({i \in GroupRows(d, col, k) : d.rows[i][c] # NULL})]]

\* df.groupby(col)[c].nunique(): dropna=True, nulls of c are not counted.
GroupByNUnique(d, col, c) ==
  LET idx == GroupLabels(d, col)
  IN [index |-> idx,
      values |-> [k \in Range(idx) |->
                    Cardinality({d.rows[i][c] : i \in GroupRows(d, col, k)} \ {NULL})]]

\* df.groupby(col).size()
GroupBySize(d, col) ==
  LET idx == GroupLabels(d, col)
  IN [index |-> idx,
      values |-> [k \in Range(idx) |-> Cardinality(GroupRows(d, col, k))]]

\* df.groupby(col)[c].sum()
GroupBySum(d, col, c) ==
  LET idx == GroupLabels(d, col)
  IN [index |-> idx,
      values |-> [k \in Range(idx) |->
                    SumOver(GroupRows(d, col, k), [i \in 1..Len(d.rows) |-> d.rows[i][c]])]]

\* Python truthiness of the argument news_count_col: None and "" are falsy.
Truthy(x) == x # None /\ x # ""

\* Mutant of SortValuesDescending: ascending=True.
SortValuesAscending(s) ==
  LET m == Len(s.index)
  IN { [i \in 1..m |-> s.index[p[i]]] :
         p \in { q \in [1..m -> 1..m] :
                   /\ \A i, j \in 1..m : i # j => q[i] # q[j]
                   /\ \A i \in 1..m : \A j \in 1..m :
                        i < j => s.values[s.index[q[i]]] <= s.values[s.index[q[j]]] } }

\* series.sort_values(ascending=False).index.tolist().  The default kind is
\* "quicksort", which is not stable: every arrangement of the index with
\* non-increasing values is a possible outcome.
SortValuesDescending(s) ==
  LET m == Len(s.index)
  IN { [i \in 1..m |-> s.index[p[i]]] :
         p \in { q \in [1..m -> 1..m] :
                   /\ \A i, j \in 1..m : i # j => q[i] # q[j]
                   /\ \A i \in 1..m : \A j \in 1..m :
                        i < j => s.values[s.index[q[i]]] >= s.values[s.index[q[j]]] } }

\* Mutant of head: one entry too many.
headOneMore(s, k) ==
  IF k >= 0 THEN SubSeq(s, 1, Min(k + 1, Len(s)))
  ELSE SubSeq(s, 1, Max(0, Len(s) + k))

\* Mutant of head: every negative k means "all", as -1 does in the callers.
headNegativeIsAll(s, k) ==
  IF k >= 0 THEN SubSeq(s, 1, Min(k, Len(s)))
  ELSE s

\* .head(k): the first k entries, or all but the last -k when k is negative.
head(s, k) ==
  IF k >= 0 THEN SubSeq(s, 1, Min(k, Len(s)))
  ELSE SubSeq(s, 1, Max(0, Len(s) + k))

\* df[df[col].isin(labels)]
IsIn(d, col, labels) ==
  SelectSeq(d.rows, LAMBDA r : r[col] \in Range(labels))

\* Mutant of Loc: the series is returned as it is.
LocWhole(s, labels) == s

\* series.loc[labels]
Loc(s, labels) ==
  [index |-> labels, values |-> [k \in Range(labels) |-> s.values[k]]]

\* ------------------------------------------------------------------- state
Init ==
  /\ fn \in {"history", "news"}
  /\ df \in (IF fn = "history" THEN HistoryFrames ELSE NewsFrames)
  /\ news_count_col \in (IF fn = "history" THEN {None} ELSE CountColArgs)
  /\ n \in NValues
  /\ pc = "call"
  /\ counts = EmptySeries
  /\ top_tickers = <<>>
  /\ subset = <<>>
  /\ totals = EmptySeries

\* Mutant of RaisesKeyError: a missing date column raises too.
RaisesOnAnyMissingColumn(d) == ticker_col \notin d.columns \/ date_col \notin d.columns

\* if ticker_col not in df.columns: raise KeyError
RaisesKeyError(d) == ticker_col \notin d.columns

\* The aggregation of get_top_n_by_history (local `counts`).
HistoryCounts(d) ==
  IF date_col \in d.columns
  THEN GroupByNUnique(d, ticker_col, date_col)
  ELSE GroupBySize(d, ticker_col)

\* The aggregation of get_top_n_by_news (local `totals`).
NewsTotals(d, c) ==
  IF Truthy(c) /\ c \in d.columns
  THEN GroupBySum(d, ticker_col, c)
  ELSE IF "news_count" \in d.columns
       THEN GroupBySum(d, ticker_col, "news_count")
       ELSE GroupBySize(d, ticker_col)

get_top_n_by_history ==
  /\ pc = "call"
  /\ fn = "history"
  /\ IF RaisesKeyError(df)
     THEN /\ pc' = "raised"
          /\ UNCHANGED <<counts, top_tickers, subset, totals>>
     ELSE LET c == HistoryCounts(df)
          IN /\ counts' = c
             /\ IF n = -1
                THEN /\ top_tickers' \in SortValuesDescending(c)
                     /\ subset' = df.rows
                ELSE /\ \E ranked \in SortValuesDescending(c) :
                          top_tickers' = head(ranked, n)
                     /\ subset' = IsIn(df, ticker_col, top_tickers')
             /\ totals' = totals
             /\ pc' = "returned"
  /\ UNCHANGED <<fn, df, news_count_col, n>>

get_top_n_by_news ==
  /\ pc = "call"
  /\ fn = "news"
  /\ IF RaisesKeyError(df)
     THEN /\ pc' = "raised"
          /\ UNCHANGED <<counts, top_tickers, subset, totals>>
     ELSE LET t == NewsTotals(df, news_count_col)
          IN /\ counts' = t
             /\ IF n = -1
                THEN /\ top_tickers' \in SortValuesDescending(t)
                     /\ subset' = df.rows
                ELSE /\ \E ranked \in SortValuesDescending(t) :
                          top_tickers' = head(ranked, n)
                     /\ subset' = IsIn(df, ticker_col, top_tickers')
             /\ totals' = Loc(t, top_tickers')
             /\ pc' = "returned"
  /\ UNCHANGED <<fn, df, news_count_col, n>>

Next == get_top_n_by_history \/ get_top_n_by_news

Spec == Init /\ [][Next]_vars

\* ------------------------------------------------------------------ claims
Returned == pc = "returned"

Raised == pc = "raised"

\* The values of the key column, nulls included.
KeyValues(d) == {d.rows[i][ticker_col] : i \in 1..Len(d.rows)}

\* The groups: the distinct key values that rows share; a row with a missing
\* key has no key value and is in no group.
Groups(d) == KeyValues(d) \ {NULL}

RowsOf(d, k) == {i \in 1..Len(d.rows) : d.rows[i][ticker_col] = k}

RowCount(d) == [k \in Groups(d) |-> Cardinality(RowsOf(d, k))]

\* Distinct dates of a group; a missing date is not a date.
DistinctDates(d) ==
  [k \in Groups(d) |-> Cardinality({d.rows[i][date_col] : i \in RowsOf(d, k)} \ {NULL})]

SumOf(d, c) ==
  [k \in Groups(d) |->
     SumOver(RowsOf(d, k), [i \in 1..Len(d.rows) |-> d.rows[i][c]])]

RowsWithKeyIn(d, S) == SelectSeq(d.rows, LAMBDA r : r[ticker_col] \in S)

NoDuplicates(s) == \A i, j \in 1..Len(s) : i # j => s[i] # s[j]

Position(s, x) == CHOOSE i \in 1..Len(s) : s[i] = x

\* The measure the call computed for group k.
Measure(k) == counts.values[k]

\* Every ranking of all groups of d by the measure m, highest first.
DescendingRankings(d, m) ==
  LET g == Cardinality(Groups(d))
  IN { r \in [1..g -> Groups(d)] :
         /\ \A i, j \in 1..g : i # j => r[i] # r[j]
         /\ \A i, j \in 1..g : i < j => m[r[i]] >= m[r[j]] }

\* C1 (as stated): with n = -1 both rankers return a duplicate-free key list
\* whose set is the set of distinct values of the key column, rows with a
\* null key included, and a subset equal to the input.
C1_AllKeysAndWholeFrame ==
  (Returned /\ n = -1) =>
    /\ NoDuplicates(top_tickers)
    /\ Range(top_tickers) = KeyValues(df)
    /\ subset = df.rows

\* C2: for n >= 0 the key list has exactly min(n, number of groups) entries;
\* n = 0 gives an empty key list, an empty subset and empty totals; n at or
\* above the number of groups gives every group.
C2_LengthIsMinOfNAndGroups ==
  (Returned /\ n >= 0) =>
    /\ Len(top_tickers) = Min(n, Cardinality(Groups(df)))
    /\ n = 0 => top_tickers = <<>> /\ subset = <<>> /\ totals = EmptySeries
    /\ n >= Cardinality(Groups(df)) => Range(top_tickers) = Groups(df)

C2_Witness ==
  /\ Returned
  /\ fn = "news"
  /\ n = 2
  /\ Cardinality(Groups(df)) = 3
  /\ Len(top_tickers) = 2

\* C3 (as stated): whenever a ranker returns, the subset is exactly the rows
\* of the input whose key is one of top_tickers, in the input's order.
C3_SubsetIsRowsOfTopKeys ==
  Returned => subset = RowsWithKeyIn(df, Range(top_tickers))

\* C4: top_tickers is ordered by measure, highest first, and for n >= 0 no
\* group left out has a measure strictly greater than one that was selected.
C4_DescendingAndHighest ==
  Returned =>
    /\ \A i \in 1..(Len(top_tickers) - 1) :
         Measure(top_tickers[i]) >= Measure(top_tickers[i + 1])
    /\ n >= 0 =>
         \A g \in Groups(df) \ Range(top_tickers) : \A t \in Range(top_tickers) :
           Measure(g) <= Measure(t)

C4_Witness ==
  /\ Returned
  /\ n = 2
  /\ Len(top_tickers) = 2
  /\ Measure(top_tickers[1]) > Measure(top_tickers[2])
  /\ Groups(df) \ Range(top_tickers) # {}

\* C5 (as stated): groups of equal measure keep the order in which the
\* aggregation enumerated them, and a tie across the cutoff keeps the earlier.
C5_TiesKeepAggregationOrder ==
  (Returned /\ n >= -1) =>
    \A a, b \in Groups(df) :
      (/\ Measure(a) = Measure(b)
       /\ Position(counts.index, a) < Position(counts.index, b)
       /\ b \in Range(top_tickers))
      => /\ a \in Range(top_tickers)
         /\ Position(top_tickers, a) < Position(top_tickers, b)

\* C6: the totals get_top_n_by_news returns have exactly top_tickers as
\* their keys, in that order, each with the measure computed for the group.
C6_TotalsFollowTopKeys ==
  (Returned /\ fn = "news") =>
    /\ totals.index = top_tickers
    /\ DOMAIN totals.values = Range(top_tickers)
    /\ \A k \in Range(top_tickers) : totals.values[k] = Measure(k)

C6_Witness ==
  /\ Returned
  /\ fn = "news"
  /\ Len(top_tickers) = 2
  /\ Cardinality(Groups(df)) = 3
  /\ top_tickers[1] > top_tickers[2]
  /\ totals.index = top_tickers

\* C7: a call ends with the KeyError exactly when the key column is absent,
\* and then nothing was aggregated or returned; an absent date column or
\* count column raises nothing and the measure falls back to the row count.
C7_KeyErrorIffKeyColumnAbsent ==
  pc # "call" =>
    /\ Raised <=> ticker_col \notin df.columns
    /\ Raised => /\ counts = EmptySeries
                 /\ top_tickers = <<>>
                 /\ subset = <<>>
                 /\ totals = EmptySeries
    /\ (Returned /\ fn = "history" /\ date_col \notin df.columns)
         => counts.values = RowCount(df)
    /\ (Returned /\ fn = "news" /\ news_count_col \notin df.columns
          /\ "news_count" \notin df.columns)
         => counts.values = RowCount(df)

C7_Witness ==
  /\ Raised
  /\ fn = "history"
  /\ date_col \in df.columns
  /\ Len(df.rows) = MaxRows

\* C8 (as stated): the measure of get_top_n_by_news is the sum of
\* count_column when it is given and present, whatever its name; else the sum
\* of "news_count" when that column is present; else the row count.
C8_MeasurePriority ==
  (Returned /\ fn = "news") =>
    counts.values =
      IF news_count_col # None /\ news_count_col \in df.columns
      THEN SumOf(df, news_count_col)
      ELSE IF "news_count" \in df.columns
           THEN SumOf(df, "news_count")
           ELSE RowCount(df)

\* C9: the measure of get_top_n_by_history is the number of distinct dates of
\* the group (a date counted once, a missing date not at all) when the date
\* column is present and the number of rows of the group when it is absent,
\* and top_tickers is ranked by that measure.
C9_HistoryMeasure ==
  (Returned /\ fn = "history") =>
    LET m == IF date_col \in df.columns THEN DistinctDates(df) ELSE RowCount(df)
    IN /\ counts.values = m
       /\ \A i, j \in 1..Len(top_tickers) :
            i < j => m[top_tickers[i]] >= m[top_tickers[j]]

C9_Witness ==
  /\ Returned
  /\ fn = "history"
  /\ date_col \in df.columns
  /\ \E k \in Range(top_tickers) :
       /\ Cardinality(RowsOf(df, k)) = 2
       /\ \A i \in RowsOf(df, k) : df.rows[i][date_col] # NULL
       /\ Measure(k) = 1

\* C10: for n < -1 no error is raised and top_tickers is a descending
\* ranking of all groups without its last |n| entries, of length
\* max(0, number of groups - |n|); the subset is the rows of those keys.
C10_NegativeNDropsTail ==
  (pc # "call" /\ n < -1 /\ ticker_col \in df.columns) =>
    /\ Returned
    /\ Len(top_tickers) = Max(0, Cardinality(Groups(df)) + n)
    /\ \E r \in DescendingRankings(df, counts.values) :
         top_tickers = SubSeq(r, 1, Max(0, Len(r) + n))
    /\ subset = RowsWithKeyIn(df, Range(top_tickers))

C10_Witness ==
  /\ Returned
  /\ n = -2
  /\ Cardinality(Groups(df)) = 3
  /\ Len(top_tickers) = 1

====
